---- MODULE Spec2Model ----
(***************************************************************************)
(* Deferred-publish scheduling of buffer-api-demo: PostService (create /    *)
(* update / delete / publish), QueueService over the Bull queue            *)
(* 'post-publishing', and the processor registered by setupPostWorker.     *)
(*                                                                         *)
(* Every request handler is cut at its awaits: one action is the effect of  *)
(* one awaited store or queue call together with the synchronous code that  *)
(* follows it.  Time is the wall clock in milliseconds, observed at         *)
(* multiples of the retry backoff base.                                     *)
(***************************************************************************)
EXTENDS Integers, Sequences, FiniteSets, TLC

\* ------------------------------------------------------------------ bounds
MaxPosts == 1
NumRequests == 1
NumWorkers == 1
MaxTicks == 2
MaxHits == 3

\* ------------------------------------------------------- program constants
Attempts == 3
BackoffDelay == 2000
\* Bull's default for a queue created without settings
MaxStalledCount == 1

ClockStep == BackoffDelay
MaxTime == MaxTicks * ClockStep
Times == {k * ClockStep : k \in 0..MaxTicks}

PostIds == 1..MaxPosts
Users == {"u1", "u2"}
Contents == {"a", "b"}
\* user ids and contents are interchangeable: posts are created by the first
\* user with the first content, updates write the second content
Creators == {"u1"}
NewContents == {"a"}
EditContents == {"b"}

\* an optional value is the empty tuple (undefined) or a one-element tuple
None == <<>>
Some(x) == <<x>>
Present(o) == o # <<>>
OptTimes == {None} \cup {Some(t) : t \in Times}
OptContents == {None} \cup {Some(c) : c \in EditContents}

VARIABLES
  now,      \* Date.now()
  posts,    \* the Post collection: id -> document
  nextId,   \* the next _id Post.create hands out
  queue,    \* the jobs Bull holds (pending, active and retained ones)
  req,      \* request handlers in flight: position and local variables
  worker,   \* the queue processors: idle, or inside publishPost
  last,     \* the call that returned in the latest step, if one did
  limits    \* the rate limiter's keys in Redis: key -> hits and time to live

vars == <<now, posts, nextId, queue, req, worker, last, limits>>

Requests == DOMAIN req
Workers == DOMAIN worker

\* ------------------------------------------------------------- errors.util
StatusCode(res) ==
  CASE res = "OK" -> 200
    [] res \in {"BadRequest:future", "BadRequest:schedule"} -> 400
    [] res = "NotFound" -> 404
    [] res = "Conflict" -> 409
    [] OTHER -> 500

\* ----------------------------------------------------------- timezone.util
IsFutureTimeNotStrict(scheduledTime, clock) == scheduledTime >= clock
IsFutureTime(scheduledTime, clock) == scheduledTime > clock

\* calculateDelay throws exactly when CanCalculateDelay is false
CanCalculateDelay(scheduledTime, clock) == IsFutureTime(scheduledTime, clock)
CalculateDelay(scheduledTime, clock) == scheduledTime - clock

\* A Date holds its time value, in epoch milliseconds.  An ISO 8601 string is the wall-clock
\* reading it spells, in milliseconds, with the offset from UTC it carries;
\* a string ending in Z carries the offset 0.
Offsets == {k * ClockStep : k \in -2..2}
Dates == {[time |-> t] : t \in Times}
IsDate(input) == DOMAIN input = {"time"}
IsoStrings == {[wall |-> t + o, offset |-> o] : t \in Times, o \in Offsets}
TimeInputs == Dates \cup IsoStrings

\* new Date(isoString).getTime()
GetTimeOfWall(iso) == iso.wall
GetTime(iso) == iso.wall - iso.offset
\* Date.prototype.toISOString
ToISOString(date) == [wall |-> date.time, offset |-> 0]
\* toUtcString(toUtc(input)): the same instant, spelled in UTC
\* isSameInstant(time1, time2)
IsSameInstant(time1, time2) == GetTime(time1) = GetTime(time2)
ToUtcKeepsWall(input) == [wall |-> input.wall, offset |-> 0]
ToUtcIsoString(input) == [wall |-> input.wall - input.offset, offset |-> 0]
NormalizeToUtc(input) ==
  IF IsDate(input) THEN ToISOString(input) ELSE ToUtcIsoString(input)

\* ------------------------------------------------------------ queue.service
JobKey(postId) == <<"post", postId>>

JobsOf(q, id) == {j \in q : j.id = id}
HasJob(q, id) == JobsOf(q, id) # {}
Live(j) == j.state \in {"pending", "active"}
LiveJobsOf(q, postId) == {j \in q : j.postId = postId /\ Live(j)}

NewJob(postId, delay) ==
  [id |-> JobKey(postId), postId |-> postId, state |-> "pending",
   due |-> now + delay, attemptsMade |-> 0, backoff |-> 0, tries |-> 0,
   lock |-> 0, stalls |-> 0]

\* postQueue.add with a jobId: Bull returns the job already stored under that
\* id, whatever its state, and adds nothing
AddJob(q, postId, delay) ==
  IF HasJob(q, JobKey(postId)) THEN q ELSE q \cup {NewJob(postId, delay)}

\* job.remove() rejects when the job is locked by a processor
RemoveRejectsNever(q, id) == FALSE
RemoveRejectsAbsent(q, id) == JobsOf(q, id) = {} \/ \E j \in JobsOf(q, id) : j.state = "active"
RemoveRejects(q, id) == \E j \in JobsOf(q, id) : j.state = "active"
RemoveJob(q, id) == q \ JobsOf(q, id)

\* Bull's built-in exponential backoff
Pow2(n) == IF n = 0 THEN 1 ELSE IF n = 1 THEN 2 ELSE IF n = 2 THEN 4 ELSE 8
BackoffFixed(attemptsMade) == BackoffDelay
Backoff(attemptsMade) == (Pow2(attemptsMade) - 1) * BackoffDelay

\* ------------------------------------------------------------------- Init
Idle == [pc |-> "idle"]
NoCall == [op |-> "none", p |-> 0, s |-> None, res |-> "none"]

\* an empty store and queue, `handlers` request handlers, NumWorkers processors
StartWith(handlers, processors) ==
  /\ now = 0
  /\ posts = << >>
  /\ nextId = 1
  /\ queue = {}
  /\ req = [r \in 1..handlers |-> Idle]
  /\ worker = [w \in 1..processors |-> Idle]
  /\ last = NoCall
  /\ limits = << >>
Start(handlers) == StartWith(handlers, NumWorkers)

Init == Start(NumRequests)

\* the fields of a loaded document a handler reads or assigns later
Loaded(doc, fields) == [f \in fields |-> doc[f]]
UpdateFields == {"status", "scheduledAt", "jobId"}

Returned(op, p, s, res) == [op |-> op, p |-> p, s |-> s, res |-> res]
Exists(p) == p \in DOMAIN posts
Without(f, p) == [x \in (DOMAIN f) \ {p} |-> f[x]]
With(f, p, v) == [x \in (DOMAIN f) \cup {p} |-> IF x = p THEN v ELSE f[x]]

\* ------------------------------------------------------------------ clock
\* the clock runs to the horizon, and on while a job waits for its delay
Waiting(q) == \E j \in q : j.state = "pending" /\ j.due > now
Tick ==
  /\ now < MaxTime \/ Waiting(queue)
  /\ now' = now + ClockStep
  /\ UNCHANGED <<posts, nextId, queue, req, worker>>
  /\ last' = NoCall
  /\ UNCHANGED limits

\* Post.findOne({ _id: postId, userId }): the document, when the caller owns it
FindAnyOwner(p, u) == Exists(p)
FindOne(p, u) == Exists(p) /\ posts[p].userId = u

\* ------------------------------------------------------ PostService.getPost
GetPost(r, u, p) ==
  /\ req[r].pc = "idle"
  /\ last' = Returned("get", p, None,
                      IF FindOne(p, u) THEN "OK" ELSE "NotFound")
  /\ UNCHANGED <<now, posts, nextId, queue, req, worker>>
  /\ UNCHANGED limits

\* --------------------------------------------------- PostService.createPost
\* validation and Post.create; a draft returns at once
CreateStart(r, u, c, s) ==
  /\ req[r].pc = "idle"
  /\ IF Present(s) /\ ~IsFutureTime(s[1], now)
       THEN /\ last' = Returned("create", 0, s, "BadRequest:future")
            /\ UNCHANGED <<posts, nextId, req>>
       ELSE /\ nextId <= MaxPosts
            /\ LET doc == [userId |-> u, content |-> c,
                           status |-> IF Present(s) THEN "scheduled" ELSE "draft",
                           scheduledAt |-> s, jobId |-> None,
                           publishedAt |-> None]
               IN /\ posts' = With(posts, nextId, doc)
                  /\ nextId' = nextId + 1
                  /\ IF Present(s)
                       THEN /\ req' = [req EXCEPT ![r] =
                                 [pc |-> "create_add", op |-> "create",
                                  p |-> nextId,
                                  doc |-> Loaded(doc, {"scheduledAt"})]]
                            /\ last' = NoCall
                       ELSE /\ last' = Returned("create", nextId, s, "OK")
                            /\ UNCHANGED req
  /\ UNCHANGED <<now, queue, worker>>
  /\ UNCHANGED limits

\* calculateDelay and queueService.addJob inside the try block
CreateAddJob(r) ==
  /\ req[r].pc = "create_add"
  /\ LET t == req[r].doc.scheduledAt[1]
     IN IF CanCalculateDelay(t, now)
          THEN /\ queue' = AddJob(queue, req[r].p, CalculateDelay(t, now))
               /\ req' = [req EXCEPT ![r].pc = "create_save"]
          ELSE /\ req' = [req EXCEPT ![r].pc = "create_rollback"]
               /\ UNCHANGED queue
  /\ UNCHANGED <<now, posts, nextId, worker>>
  /\ last' = NoCall
  /\ UNCHANGED limits

\* post.jobId = job.id; post.save(): rejects when the document is gone
CreateSave(r) ==
  /\ req[r].pc = "create_save"
  /\ LET p == req[r].p
     IN IF Exists(p)
          THEN /\ posts' = [posts EXCEPT ![p].jobId = Some(JobKey(p))]
               /\ last' = Returned("create", p, req[r].doc.scheduledAt, "OK")
               /\ req' = [req EXCEPT ![r] = Idle]
          ELSE /\ req' = [req EXCEPT ![r].pc = "create_rollback"]
               /\ posts' = posts /\ last' = NoCall
  /\ UNCHANGED <<now, nextId, queue, worker>>
  /\ UNCHANGED limits

\* the catch block: Post.findByIdAndDelete, then BadRequestError
CreateRollback(r) ==
  /\ req[r].pc = "create_rollback"
  /\ posts' = Without(posts, req[r].p)
  /\ last' = Returned("create", req[r].p, req[r].doc.scheduledAt,
                      "BadRequest:schedule")
  /\ req' = [req EXCEPT ![r] = Idle]
  /\ UNCHANGED <<now, nextId, queue, worker>>
  /\ UNCHANGED limits

\* the awaited queue or store call inside the try block rejects
CreateFault(r) ==
  /\ req[r].pc \in {"create_add", "create_save"}
  /\ req' = [req EXCEPT ![r].pc = "create_rollback"]
  /\ UNCHANGED <<now, posts, nextId, queue, worker>>
  /\ last' = NoCall
  /\ UNCHANGED limits

\* --------------------------------------------------- PostService.updatePost
WasScheduledNever(doc) == FALSE
WasScheduled(doc) == doc.status = "scheduled"

\* where updatePost goes after findOne and the checks
AfterRead(doc, data) ==
  IF WasScheduled(doc) /\ Present(doc.jobId) THEN "update_remove"
  ELSE IF Present(data.scheduledAt) THEN "update_add"
  ELSE "update_save"

\* the paths updatePost has assigned when it reaches post.save()
AssignedNoTime(doc, data) ==
  IF Present(data.scheduledAt)
    THEN [status |-> "scheduled", jobId |-> Some(JobKey(data.p))]
    ELSE IF WasScheduled(doc)
      THEN [status |-> "draft", scheduledAt |-> None, jobId |-> None]
      ELSE << >>
AssignedNoJobId(doc, data) ==
  IF Present(data.scheduledAt)
    THEN [scheduledAt |-> data.scheduledAt, status |-> "scheduled"]
    ELSE IF WasScheduled(doc)
      THEN [status |-> "draft", scheduledAt |-> None, jobId |-> None]
      ELSE << >>
Assigned(doc, data) ==
  LET cleared == IF WasScheduled(doc) /\ Present(doc.jobId) THEN None ELSE doc.jobId
      content == IF Present(data.content)
                   THEN [content |-> data.content[1]] ELSE << >>
      schedule ==
        IF Present(data.scheduledAt)
          THEN [scheduledAt |-> data.scheduledAt, status |-> "scheduled",
                jobId |-> Some(JobKey(data.p))]
          ELSE IF WasScheduled(doc)
            THEN [status |-> "draft", scheduledAt |-> None, jobId |-> cleared]
            ELSE [jobId |-> cleared]
  IN content @@ schedule

\* post.save(): an assigned path is written unless it has the value that was
\* loaded (content is not kept with the handler: an edit always differs from
\* the content a post is created with)
SaveDelta(stored, loaded, assigned) ==
  [f \in DOMAIN stored |->
     IF f \in DOMAIN assigned
       THEN IF f \in DOMAIN loaded /\ assigned[f] = loaded[f]
              THEN stored[f] ELSE assigned[f]
       ELSE stored[f]]

\* a published post is not updated
ImmutableNever(doc) == FALSE
Immutable(doc) == doc.status = "published"

\* findOne({_id, userId}), the published check and the time validation
UpdateStart(r, u, p, c, s) ==
  /\ req[r].pc = "idle"
  /\ IF ~FindOne(p, u)
       THEN /\ last' = Returned("update", p, s, "NotFound")
            /\ UNCHANGED req
     ELSE IF Immutable(posts[p])
       THEN /\ last' = Returned("update", p, s, "Conflict")
            /\ UNCHANGED req
     ELSE IF Present(s) /\ ~IsFutureTime(s[1], now)
       THEN /\ last' = Returned("update", p, s, "BadRequest:future")
            /\ UNCHANGED req
     ELSE LET data == [p |-> p, content |-> c, scheduledAt |-> s]
          IN /\ req' = [req EXCEPT ![r] =
                   [pc |-> AfterRead(posts[p], data), op |-> "update",
                    p |-> p, data |-> data, removed |-> FALSE,
                    doc |-> Loaded(posts[p], UpdateFields)]]
             /\ last' = NoCall
  /\ UNCHANGED <<now, posts, nextId, queue, worker>>
  /\ UNCHANGED limits

\* queueService.removeJob(post.jobId): a rejection leaves updatePost
UpdateRemove(r) ==
  /\ req[r].pc = "update_remove"
  /\ LET id == req[r].doc.jobId[1]
     IN IF RemoveRejects(queue, id)
          THEN /\ last' = Returned("update", req[r].p, req[r].data.scheduledAt, "Error")
               /\ req' = [req EXCEPT ![r] = Idle]
               /\ UNCHANGED queue
          ELSE /\ queue' = RemoveJob(queue, id)
               /\ req' = [req EXCEPT ![r].removed = TRUE, ![r].pc =
                    IF Present(req[r].data.scheduledAt)
                      THEN "update_add" ELSE "update_save"]
               /\ last' = NoCall
  /\ UNCHANGED <<now, posts, nextId, worker>>
  /\ UNCHANGED limits

\* calculateDelay (outside any try block) and queueService.addJob
UpdateAddJob(r) ==
  /\ req[r].pc = "update_add"
  /\ LET t == req[r].data.scheduledAt[1]
     IN IF CanCalculateDelay(t, now)
          THEN /\ queue' = AddJob(queue, req[r].p, CalculateDelay(t, now))
               /\ req' = [req EXCEPT ![r].pc = "update_save"]
               /\ last' = NoCall
          ELSE /\ last' = Returned("update", req[r].p, req[r].data.scheduledAt,
                                 "BadRequest:future")
               /\ req' = [req EXCEPT ![r] = Idle]
               /\ UNCHANGED queue
  /\ UNCHANGED <<now, posts, nextId, worker>>
  /\ UNCHANGED limits

\* post.save(): rejects when the document is gone
UpdateSave(r) ==
  /\ req[r].pc = "update_save"
  /\ LET p == req[r].p
     IN IF Exists(p)
          THEN /\ posts' = [posts EXCEPT ![p] =
                    SaveDelta(posts[p], req[r].doc,
                              Assigned(req[r].doc, req[r].data))]
               /\ last' = Returned("update", p, req[r].data.scheduledAt, "OK")
          ELSE /\ last' = Returned("update", p, req[r].data.scheduledAt, "Error")
               /\ UNCHANGED posts
  /\ req' = [req EXCEPT ![r] = Idle]
  /\ UNCHANGED <<now, nextId, queue, worker>>
  /\ UNCHANGED limits

\* the awaited queue call of updatePost rejects (Redis unavailable)
UpdateFault(r) ==
  /\ req[r].pc \in {"update_remove", "update_add"}
  /\ last' = Returned("update", req[r].p, req[r].data.scheduledAt, "Error")
  /\ req' = [req EXCEPT ![r] = Idle]
  /\ UNCHANGED <<now, posts, nextId, queue, worker>>
  /\ UNCHANGED limits

\* --------------------------------------------------- PostService.deletePost
DeleteStart(r, u, p) ==
  /\ req[r].pc = "idle"
  /\ IF ~FindOne(p, u)
       THEN /\ last' = Returned("delete", p, None, "NotFound")
            /\ UNCHANGED req
       ELSE /\ req' = [req EXCEPT ![r] =
                 [pc |-> IF Present(posts[p].jobId)
                           THEN "delete_remove" ELSE "delete_doc",
                  op |-> "delete", p |-> p,
                  doc |-> Loaded(posts[p], {"jobId"})]]
            /\ last' = NoCall
  /\ UNCHANGED <<now, posts, nextId, queue, worker>>
  /\ UNCHANGED limits

DeleteRemove(r) ==
  /\ req[r].pc = "delete_remove"
  /\ LET id == req[r].doc.jobId[1]
     IN IF RemoveRejects(queue, id)
          THEN /\ last' = Returned("delete", req[r].p, None, "Error")
               /\ req' = [req EXCEPT ![r] = Idle]
               /\ UNCHANGED queue
          ELSE /\ queue' = RemoveJob(queue, id)
               /\ req' = [req EXCEPT ![r].pc = "delete_doc"]
               /\ last' = NoCall
  /\ UNCHANGED <<now, posts, nextId, worker>>
  /\ UNCHANGED limits

\* Post.findByIdAndDelete(postId)
DeleteDoc(r) ==
  /\ req[r].pc = "delete_doc"
  /\ posts' = Without(posts, req[r].p)
  /\ last' = Returned("delete", req[r].p, None, "OK")
  /\ req' = [req EXCEPT ![r] = Idle]
  /\ UNCHANGED <<now, nextId, queue, worker>>
  /\ UNCHANGED limits

\* ------------------------------------------- Bull processor / post.worker
\* the job a processor is running, while it holds the job's lock
Holds(w, j) == j.id = worker[w].id /\ j.state = "active" /\ j.lock = w
HasLock(w) == \E j \in queue : Holds(w, j)
ActiveJob(w) == CHOOSE j \in queue : Holds(w, j)

\* the processor resolved: the job is kept as completed
CompleteJob(q, j) ==
  (q \ {j}) \cup {[j EXCEPT !.state = "completed", !.lock = 0]}

\* the processor rejected: retry after the backoff, or fail for good
FailJob(q, j) ==
  LET made == j.attemptsMade + 1
  IN (q \ {j}) \cup
       {IF made < Attempts
          THEN [j EXCEPT !.attemptsMade = made, !.state = "pending",
                         !.backoff = Backoff(made),
                         !.due = now + Backoff(made), !.lock = 0]
          ELSE [j EXCEPT !.attemptsMade = made, !.state = "failed",
                         !.lock = 0]}

\* moving a job to completed or failed needs the job's lock: without it Bull
\* rejects the move and the job stays as it is
CompleteHeld(q, w) == IF HasLock(w) THEN CompleteJob(q, ActiveJob(w)) ELSE q
FailHeld(q, w) == IF HasLock(w) THEN FailJob(q, ActiveJob(w)) ELSE q

\* postQueue.on('failed'): the failure is logged, no post is written
OnFailed(ps, j) == ps

\* Bull hands a job to one processor: the job must wait and be due
ClaimableAnyLive(j) == Live(j) /\ j.due <= now
ClaimableBehindFailures(j) ==
  /\ j.state = "pending" /\ j.due <= now
  /\ \A k \in queue \ {j} : k.state # "failed" /\ k.attemptsMade = 0
Claimable(j) == j.state = "pending" /\ j.due <= now

\* a processor takes a job whose delay has elapsed and locks it
WorkerTake(w) ==
  /\ worker[w].pc = "idle"
  /\ \E j \in queue :
       /\ Claimable(j)
       /\ queue' = (queue \ {j}) \cup
            {[j EXCEPT !.state = "active", !.tries = j.tries + 1,
                       !.lock = w]}
       /\ worker' = [worker EXCEPT ![w] =
            [pc |-> "publish_find", id |-> j.id, postId |-> j.postId]]
  /\ UNCHANGED <<now, posts, nextId, req>>
  /\ last' = NoCall
  /\ UNCHANGED limits

\* publishPost: Post.findById, the not-found and already-published exits
PublishGuardOff(doc) == FALSE
AlreadyPublished(doc) == doc.status = "published"
WorkerFind(w) ==
  /\ worker[w].pc = "publish_find"
  /\ LET p == worker[w].postId
     IN IF ~Exists(p)
          THEN /\ queue' = FailHeld(queue, w)
               /\ posts' = OnFailed(posts, worker[w].id)
               /\ worker' = [worker EXCEPT ![w] = Idle]
               /\ last' = Returned("publish", p, None, "NotFound")
        ELSE IF AlreadyPublished(posts[p])
          THEN /\ queue' = CompleteHeld(queue, w)
               /\ worker' = [worker EXCEPT ![w] = Idle]
               /\ last' = Returned("publish", p, None, "OK")
               /\ UNCHANGED posts
        ELSE /\ worker' = [worker EXCEPT ![w] =
                  [pc |-> "publish_save", id |-> worker[w].id,
                   postId |-> p, publishedAt |-> now]]
             /\ last' = NoCall
             /\ UNCHANGED <<queue, posts>>
  /\ UNCHANGED <<now, nextId, req>>
  /\ UNCHANGED limits

\* post.status = PUBLISHED; post.publishedAt = new Date(nowUtc())
PublishedNoStamp(doc, at) == [doc EXCEPT !.status = "published"]
Published(doc, at) ==
  [doc EXCEPT !.status = "published", !.publishedAt = Some(at)]

\* publishPost: post.save(), which rejects when the document is gone
WorkerSave(w) ==
  /\ worker[w].pc = "publish_save"
  /\ LET p == worker[w].postId
     IN IF Exists(p)
          THEN /\ posts' = [posts EXCEPT ![p] =
                    Published(posts[p], worker[w].publishedAt)]
               /\ queue' = CompleteHeld(queue, w)
               /\ last' = Returned("publish", p, None, "OK")
          ELSE /\ queue' = FailHeld(queue, w)
               /\ posts' = OnFailed(posts, worker[w].id)
               /\ last' = Returned("publish", p, None, "Error")
  /\ worker' = [worker EXCEPT ![w] = Idle]
  /\ UNCHANGED <<now, nextId, req>>
  /\ UNCHANGED limits

\* the publish action rejects (store unavailable)
WorkerFault(w) ==
  /\ worker[w].pc \in {"publish_find", "publish_save"}
  /\ queue' = FailHeld(queue, w)
  /\ posts' = OnFailed(posts, worker[w].id)
  /\ worker' = [worker EXCEPT ![w] = Idle]
  /\ last' = Returned("publish", worker[w].postId, None, "Error")
  /\ UNCHANGED <<now, nextId, req>>
  /\ UNCHANGED limits

\* ------------------------------------------------ Bull stalled-job recovery
\* a worker process dies inside the processor and is started again: the job
\* stays in the active list under the lock of the dead process
WorkerCrash(w) ==
  /\ worker[w].pc # "idle"
  /\ worker' = [worker EXCEPT ![w] = Idle]
  /\ last' = NoCall
  /\ UNCHANGED <<now, posts, nextId, queue, req>>
  /\ UNCHANGED limits

\* an active job whose lock nobody renews
Orphaned(j) ==
  /\ j.state = "active"
  /\ IF worker[j.lock].pc = "idle" THEN TRUE ELSE worker[j.lock].id # j.id

\* the stalled-job check: back to the wait list, at most MaxStalledCount
\* times, then failed ("job stalled more than allowable limit")
RequeueNever(q, j) == q
Requeue(q, j) ==
  (q \ {j}) \cup
    {IF j.stalls + 1 > MaxStalledCount
       THEN [j EXCEPT !.state = "failed", !.stalls = j.stalls + 1, !.lock = 0]
       ELSE [j EXCEPT !.state = "pending", !.stalls = j.stalls + 1,
                      !.lock = 0]}
StalledCheck ==
  /\ \E j \in queue :
       /\ Orphaned(j)
       /\ queue' = Requeue(queue, j)
       /\ posts' = OnFailed(posts, j.id)
  /\ last' = NoCall
  /\ UNCHANGED <<now, nextId, req, worker>>
  /\ UNCHANGED limits

\* the lock of a job expires while its processor is still running (the lock
\* was not renewed in time): the stalled-job check hands the job out again
LeaseExpire ==
  /\ \E j \in queue :
       /\ j.state = "active"
       /\ ~Orphaned(j)
       /\ queue' = Requeue(queue, j)
       /\ posts' = OnFailed(posts, j.id)
  /\ last' = NoCall
  /\ UNCHANGED <<now, nextId, req, worker>>
  /\ UNCHANGED limits

\* ----------------------------------------------------------- specifications
\* a new call runs in the lowest free handler
Free(r) == req[r].pc = "idle" /\ \A q \in Requests : q < r => req[q].pc # "idle"

Calls ==
  \/ \E r \in Requests, u \in Creators, c \in NewContents, s \in OptTimes :
       Free(r) /\ CreateStart(r, u, c, s)
  \/ \E r \in Requests, u \in Users, p \in PostIds, c \in OptContents,
        s \in OptTimes : Free(r) /\ UpdateStart(r, u, p, c, s)
  \/ \E r \in Requests, u \in Users, p \in PostIds :
       Free(r) /\ DeleteStart(r, u, p)

Steps ==
  \/ Tick
  \/ \E r \in Requests : CreateAddJob(r)
  \/ \E r \in Requests : CreateSave(r)
  \/ \E r \in Requests : CreateRollback(r)
  \/ \E r \in Requests : UpdateRemove(r)
  \/ \E r \in Requests : UpdateAddJob(r)
  \/ \E r \in Requests : UpdateSave(r)
  \/ \E r \in Requests : DeleteRemove(r)
  \/ \E r \in Requests : DeleteDoc(r)
  \/ \E w \in Workers : WorkerTake(w)
  \/ \E w \in Workers : WorkerFind(w)
  \/ \E w \in Workers : WorkerSave(w)

Faults ==
  \/ \E r \in Requests : CreateFault(r)
  \/ \E r \in Requests : UpdateFault(r)
  \/ \E w \in Workers : WorkerFault(w)

NextNoFault == Calls \/ Steps

\* ---------------------------------------------- timezone.util, called alone
\* isFutureTime(normalizeToUtc(input)), one reading of the clock
IsFutureTimeCall(r, input) ==
  /\ Free(r)
  /\ last' = [op |-> "isFutureTime", p |-> 0, s |-> Some(input), res |-> "OK",
              value |-> IsFutureTime(GetTime(NormalizeToUtc(input)), now)]
  /\ UNCHANGED <<now, posts, nextId, queue, req, worker>>
  /\ UNCHANGED limits

\* calculateDelay, up to the result of isFutureTime: the first reading of the
\* clock
DelayCheck(r, input) ==
  /\ Free(r)
  /\ LET iso == NormalizeToUtc(input) IN
       IF IsFutureTime(GetTime(iso), now)
       THEN /\ req' = [req EXCEPT ![r] = [pc |-> "delay_subtract",
                         op |-> "calculateDelay", p |-> 0, iso |-> iso]]
            /\ last' = NoCall
       ELSE /\ last' = [op |-> "calculateDelay", p |-> 0, s |-> Some(input),
                        res |-> "BadRequest:future", value |-> 0]
            /\ UNCHANGED req
  /\ UNCHANGED <<now, posts, nextId, queue, worker>>
  /\ UNCHANGED limits

\* calculateDelay from its own Date.now(): the second reading of the clock
DelaySubtract(r) ==
  /\ req[r].pc = "delay_subtract"
  /\ last' = [op |-> "calculateDelay", p |-> 0, s |-> Some(req[r].iso),
              res |-> "OK", value |-> CalculateDelay(GetTime(req[r].iso), now)]
  /\ req' = [req EXCEPT ![r] = Idle]
  /\ UNCHANGED <<now, posts, nextId, queue, worker>>
  /\ UNCHANGED limits

\* isSameInstant(s, normalizeToUtc(s)) for a string s
IsSameInstantCall(r, input) ==
  /\ Free(r)
  /\ last' = [op |-> "isSameInstant", p |-> 0, s |-> Some(input), res |-> "OK",
              value |-> IsSameInstant(input, NormalizeToUtc(input))]
  /\ UNCHANGED <<now, posts, nextId, queue, req, worker>>
  /\ UNCHANGED limits

TimeCalls ==
  \/ \E r \in Requests, input \in IsoStrings : IsSameInstantCall(r, input)
  \/ \E r \in Requests, input \in TimeInputs : IsFutureTimeCall(r, input)
  \/ \E r \in Requests, input \in TimeInputs : DelayCheck(r, input)
TimeSteps ==
  \/ Tick
  \/ \E r \in Requests : DelaySubtract(r)

\* the time utilities called with every input at every reading of the clock
TimeSpec == Init /\ [][TimeCalls \/ TimeSteps]_vars

\* the calls of the owner that reschedule, unschedule or delete
OwnerCalls ==
  \/ \E r \in Requests, u \in Creators, c \in NewContents, s \in OptTimes :
       Free(r) /\ CreateStart(r, u, c, s)
  \/ \E r \in Requests, u \in Creators, p \in PostIds, s \in OptTimes :
       Free(r) /\ UpdateStart(r, u, p, None, s)
  \/ \E r \in Requests, u \in Creators, p \in PostIds :
       Free(r) /\ DeleteStart(r, u, p)
Next == Calls \/ Steps \/ Faults

\* request handlers one at a time, beside the processor and the clock; the
\* store and the queue may reject
Spec == Init /\ [][Next]_vars

\* the same, with posts read back by their owner and by others
ReadCalls == \E r \in Requests, u \in Users, p \in PostIds : Free(r) /\ GetPost(r, u, p)
AccessSpec == Init /\ [][Next \/ ReadCalls]_vars

\* ------------------------------------------------ QueueService, called alone
\* queueService.removeJob(jobId): nothing to do when getJob finds no job
RemoveJobCall(r, p) ==
  /\ req[r].pc = "idle"
  /\ IF RemoveRejects(queue, JobKey(p))
       THEN /\ last' = Returned("removeJob", p, None, "Error")
            /\ UNCHANGED queue
       ELSE /\ queue' = RemoveJob(queue, JobKey(p))
            /\ last' = Returned("removeJob", p, None, "OK")
  /\ UNCHANGED <<now, posts, nextId, req, worker>>
  /\ UNCHANGED limits

\* queueService.addJob({ postId }, delay)
AddJobCall(r, p, t) ==
  /\ req[r].pc = "idle"
  /\ t >= now
  /\ queue' = AddJob(queue, p, t - now)
  /\ last' = Returned("addJob", p, Some(t), "OK")
  /\ UNCHANGED <<now, posts, nextId, req, worker>>
  /\ UNCHANGED limits

QueueCalls ==
  \/ \E r \in Requests, p \in PostIds : Free(r) /\ RemoveJobCall(r, p)
  \/ \E r \in Requests, p \in PostIds, t \in Times : Free(r) /\ AddJobCall(r, p, t)

\* the queue service called between the operations of the post service
QueueSpec == Init /\ [][NextNoFault \/ QueueCalls]_vars

\* store and queue available, clock and processors keep running
WorkerStep == \E w \in Workers : WorkerTake(w) \/ WorkerFind(w) \/ WorkerSave(w)
FairSpec ==
  /\ Init
  /\ [][NextNoFault]_vars
  /\ WF_vars(Tick)
  /\ WF_vars(WorkerStep)

\* clock and processors keep running while the store and the queue may reject
FaultFairSpec ==
  /\ Init
  /\ [][Next]_vars
  /\ WF_vars(Tick)
  /\ WF_vars(WorkerStep)

\* --------------------------------------------------- rateLimitStore.util
\* the keys express-rate-limit counts under: prefix + client
RateKeys == {"ip", "user"}
\* options.expiry, in seconds
Expiry == 2
\* what Redis answers to MULTI incr ttl EXEC: both replies, a rejected promise
\* (the commands were not run), no result, or an error reply of one command
RedisReplies == {"ok", "rejected", "null", "incrErr", "ttlErr"}

Counted(key) == key \in DOMAIN limits
HitsOf(key) == IF Counted(key) THEN limits[key].hits ELSE 0
\* TTL of a key: -1 when the key has no time to live
TtlOf(key) == IF Counted(key) THEN limits[key].ttl ELSE -1
Incr(key) == With(limits, key, [hits |-> HitsOf(key) + 1, ttl |-> TtlOf(key)])

\* the catch block of increment logs and answers with no hits
Rethrown(op, key) ==
  [op |-> op, p |-> 0, s |-> None, res |-> "Error", value |-> 0, key |-> key]
FailOpen(op, key) ==
  [op |-> op, p |-> 0, s |-> None, res |-> "OK", value |-> 0, key |-> key]
\* { totalHits, resetTime }
Counts(key, totalHits, ttl) ==
  [op |-> "increment", p |-> 0, res |-> "OK", value |-> totalHits, key |-> key,
   s |-> IF ttl > 0 THEN Some(now + ttl * 1000) ELSE None]
\* decrement and resetKey resolve to nothing, whether Redis answered or not
Resolved(op, key) ==
  [op |-> op, p |-> 0, s |-> None, res |-> "OK", value |-> 0, key |-> key]

\* increment: the transaction, up to the first key without a time to live
IncrementExec(r, key, reply) ==
  /\ req[r].pc = "idle"
  /\ reply \in {"ok", "ttlErr"} => HitsOf(key) < MaxHits
  /\ limits' = IF reply \in {"ok", "ttlErr"} THEN Incr(key) ELSE limits
  /\ IF reply # "ok"
       THEN /\ last' = FailOpen("increment", key)
            /\ UNCHANGED req
       ELSE IF TtlOf(key) = -1
         THEN /\ req' = [req EXCEPT ![r] =
                   [pc |-> "increment_expire", op |-> "increment", p |-> 0,
                    key |-> key, totalHits |-> HitsOf(key) + 1]]
              /\ last' = NoCall
         ELSE /\ last' = Counts(key, HitsOf(key) + 1, TtlOf(key))
              /\ UNCHANGED req
  /\ UNCHANGED <<now, posts, nextId, queue, worker>>

\* increment: redis.expire on a key that had no time to live, and the return
IncrementExpire(r, answered) ==
  /\ req[r].pc = "increment_expire"
  /\ LET key == req[r].key
     IN IF answered
          THEN /\ limits' = IF Counted(key)
                              THEN [limits EXCEPT ![key].ttl = Expiry]
                              ELSE limits
               /\ last' = Counts(key, req[r].totalHits, -1)
          ELSE /\ last' = FailOpen("increment", key)
               /\ UNCHANGED limits
  /\ req' = [req EXCEPT ![r] = Idle]
  /\ UNCHANGED <<now, posts, nextId, queue, worker>>

\* decrement: redis.decr, a rejection is logged
Decrement(r, key, answered) ==
  /\ req[r].pc = "idle"
  /\ HitsOf(key) > 0
  /\ limits' = IF answered
                 THEN [limits EXCEPT ![key].hits = HitsOf(key) - 1]
                 ELSE limits
  /\ last' = Resolved("decrement", key)
  /\ UNCHANGED <<now, posts, nextId, queue, req, worker>>

\* resetKey: redis.del, a rejection is logged
ResetKey(r, key, answered) ==
  /\ req[r].pc = "idle"
  /\ limits' = IF answered THEN Without(limits, key) ELSE limits
  /\ last' = Resolved("resetKey", key)
  /\ UNCHANGED <<now, posts, nextId, queue, req, worker>>

\* Redis drops a key whose time to live has run out
KeyExpires(key) ==
  /\ Counted(key)
  /\ limits[key].ttl > 0
  /\ limits' = Without(limits, key)
  /\ last' = NoCall
  /\ UNCHANGED <<now, posts, nextId, queue, req, worker>>

RateCalls ==
  \/ \E r \in Requests, key \in RateKeys, reply \in RedisReplies :
       Free(r) /\ IncrementExec(r, key, reply)
  \/ \E r \in Requests, key \in RateKeys, answered \in BOOLEAN :
       Free(r) /\ Decrement(r, key, answered)
  \/ \E r \in Requests, key \in RateKeys, answered \in BOOLEAN :
       Free(r) /\ ResetKey(r, key, answered)
RateSteps ==
  \/ \E r \in Requests, answered \in BOOLEAN : IncrementExpire(r, answered)
  \/ \E key \in RateKeys : KeyExpires(key)

\* the store of the rate limiter, with a Redis that may fail at every call
RateSpec == Init /\ [][RateCalls \/ RateSteps]_vars

\* a job whose post is not in the store: every attempt of it fails with
\* NotFound, is retried after its backoff and fails for good
GhostPost == MaxPosts + 1
GhostCalls ==
  \E r \in Requests, t \in Times : Free(r) /\ AddJobCall(r, GhostPost, t)

\* the processor and the clock keep running beside a job that can only fail
DispatchSpec ==
  /\ Init
  /\ [][NextNoFault \/ GhostCalls]_vars
  /\ WF_vars(Tick)
  /\ WF_vars(WorkerStep)

\* two request handlers in flight at once, store and queue available
ConcSpec == Start(NumRequests + 1) /\ [][OwnerCalls \/ Steps]_vars

\* several worker processes that may die, the stalled-job check running
CrashSteps == (\E w \in Workers : WorkerCrash(w)) \/ StalledCheck
CrashSpec ==
  /\ StartWith(NumRequests, NumWorkers + 1)
  /\ [][NextNoFault \/ CrashSteps]_vars
  /\ WF_vars(Tick)
  /\ WF_vars(WorkerStep)
  /\ WF_vars(StalledCheck)

\* publishPost invocations that overlap: several workers, locks that may
\* expire under a running processor; posts are created and deleted only
LeaseCalls ==
  \/ \E r \in Requests, u \in Creators, c \in NewContents, s \in OptTimes :
       Free(r) /\ CreateStart(r, u, c, s)
  \/ \E r \in Requests, u \in Creators, p \in PostIds :
       Free(r) /\ DeleteStart(r, u, p)
LeaseSteps ==
  \/ Tick
  \/ \E r \in Requests : CreateAddJob(r)
  \/ \E r \in Requests : CreateSave(r)
  \/ \E r \in Requests : CreateRollback(r)
  \/ \E r \in Requests : DeleteRemove(r)
  \/ \E r \in Requests : DeleteDoc(r)
  \/ \E w \in Workers : WorkerTake(w)
  \/ \E w \in Workers : WorkerFind(w)
  \/ \E w \in Workers : WorkerSave(w)
  \/ LeaseExpire
LeaseSpec ==
  StartWith(NumRequests, NumWorkers + 1) /\ [][LeaseCalls \/ LeaseSteps]_vars

\* createPost and deletePost run alone; updatePost calls of the owner may
\* overlap each other; store and queue available
Quiet == \A r \in Requests : req[r].pc = "idle"
OnlyUpdates == \A r \in Requests : req[r].pc # "idle" => req[r].op = "update"
RaceCalls ==
  \/ \E r \in Requests, u \in Creators, c \in NewContents, s \in OptTimes :
       Quiet /\ Free(r) /\ CreateStart(r, u, c, s)
  \/ \E r \in Requests, u \in Creators, p \in PostIds, s \in OptTimes :
       OnlyUpdates /\ Free(r) /\ UpdateStart(r, u, p, None, s)
  \/ \E r \in Requests, u \in Creators, p \in PostIds :
       Quiet /\ Free(r) /\ DeleteStart(r, u, p)
UpdateRaceSpec == Start(NumRequests + 1) /\ [][RaceCalls \/ Steps]_vars

\* ------------------------------------------------------------------ claims
Stored == {posts[p] : p \in DOMAIN posts}
InFlight(r) == req[r].pc # "idle"

Creating(p) ==
  \E r \in Requests : InFlight(r) /\ req[r].op = "create" /\ req[r].p = p
C2_RescheduleKeepsOneJob ==
  /\ \A p \in PostIds : Cardinality(LiveJobsOf(queue, p)) <= 1
  /\ \A r \in Requests :
       (req[r].pc = "update_add" /\ WasScheduled(req[r].doc)
          /\ Present(req[r].doc.jobId)) => req[r].removed
  /\ \A w \in Workers :
       worker[w].pc # "idle" =>
         \E j \in queue : j.id = worker[w].id /\ j.state = "active"

\* updatePost has removed the job of a scheduled post and added the new one
C2_Witness ==
  \E r \in Requests :
    /\ req[r].pc = "update_save" /\ req[r].removed
    /\ Present(req[r].data.scheduledAt)
    /\ \E j \in LiveJobsOf(queue, req[r].p) :
         j.due = req[r].data.scheduledAt[1] /\ Some(j.due) # req[r].doc.scheduledAt

\* C3: a post that createPost has returned with a future scheduledAt, stored
\* and queued as createPost leaves it and not touched by updatePost or
\* deletePost, is, with clock and processor running and store and queue
\* available, eventually published with publishedAt set, its job completed
\* after exactly one run of publishPost
AsCreated(p, s) ==
  /\ Exists(p)
  /\ posts[p].scheduledAt = s
  /\ posts[p].jobId = Some(JobKey(p))
  /\ \E j \in JobsOf(queue, JobKey(p)) :
       /\ Some(j.due) = s /\ j.tries <= 1 /\ j.attemptsMade = 0
       /\ \/ posts[p].status = "scheduled" /\ Live(j)
          \/ /\ posts[p].status = "published" /\ Present(posts[p].publishedAt)
             /\ j.state = "completed"
\* with handlers one at a time every createPost that returns with a
\* scheduledAt leaves the post and its job in that state
C3_CreateLeaves ==
  (Cardinality(Requests) = 1 /\ last.op = "create" /\ last.res = "OK"
     /\ Present(last.s))
    => AsCreated(last.p, last.s)
Touched(p) ==
  \E r \in Requests :
    InFlight(r) /\ req[r].op \in {"update", "delete"} /\ req[r].p = p
CreatedScheduled(p) ==
  /\ last = Returned("create", p, last.s, "OK") /\ Present(last.s)
  /\ AsCreated(p, last.s)
PublishedOnce(p) ==
  /\ Exists(p)
  /\ posts[p].status = "published"
  /\ Present(posts[p].publishedAt)
  /\ \E j \in queue : j.postId = p /\ j.state = "completed" /\ j.tries = 1
C3_ScheduledPostIsPublished ==
  /\ []C3_CreateLeaves
  /\ \A p \in PostIds : CreatedScheduled(p) ~> (PublishedOnce(p) \/ Touched(p))

\* the post is published at its due instant by the single run of its job
C3_Witness ==
  \E p \in PostIds :
    /\ PublishedOnce(p)
    /\ posts[p].publishedAt = posts[p].scheduledAt
    /\ last = Returned("publish", p, None, "OK")

\* C4: a job whose publish action keeps failing is run Attempts (3) times, each
\* wait before a retry is longer than the one before (2000 ms, then 6000 ms),
\* it fails for good exactly when the third run fails, and a failed job is
\* never run again
SameJob(j, k) == k.id = j.id
C4_RetryStep ==
  \A j \in queue : \A k \in queue' :
    /\ (SameJob(j, k) /\ k.attemptsMade = j.attemptsMade + 1) =>
         /\ j.state = "active"
         /\ k.tries = k.attemptsMade
         /\ k.state = "failed" <=> k.attemptsMade = Attempts
         /\ k.state # "failed" =>
              /\ k.state = "pending"
              /\ k.backoff > j.backoff
              /\ k.backoff >= BackoffDelay
              /\ k.due = now + k.backoff
    /\ (SameJob(j, k) /\ j.state = "failed") => k = j
C4_RetryThenFail ==
  /\ [](\A j \in queue : j.tries <= Attempts /\ j.attemptsMade <= j.tries)
  /\ [][C4_RetryStep]_vars

\* a job failed for good after three runs, the last wait being the longest
C4_Witness ==
  \E j \in queue :
    j.state = "failed" /\ j.tries = Attempts /\ j.backoff = 3 * BackoffDelay

\* C5: publishPost on a post that is already published returns successfully
\* and leaves the store as it is: status and publishedAt keep their values
C5_SecondPublishStep ==
  \A w \in Workers :
    (/\ worker[w].pc = "publish_find"
     /\ worker'[w] # worker[w]
     /\ Exists(worker[w].postId)
     /\ posts[worker[w].postId].status = "published")
      => /\ posts' = posts
         /\ last' = Returned("publish", worker[w].postId, None, "OK")
C5_PublishTwiceIsOnce == [][C5_SecondPublishStep]_vars

\* publishPost has returned for a post that was published at an earlier time
C5_Witness ==
  /\ last = Returned("publish", last.p, None, "OK")
  /\ Exists(last.p)
  /\ posts[last.p].status = "published"
  /\ posts[last.p].publishedAt # Some(now)

\* C6: createPost with a scheduledAt that is not strictly after the current
\* time returns a 400 error and leaves store and queue unchanged; only a
\* scheduledAt strictly after the current time gets past the check
C6_RejectStep ==
  /\ (last' # last /\ last'.op = "create" /\ last'.p = 0)
       => /\ Present(last'.s)
          /\ last'.s[1] <= now
          /\ last'.res = "BadRequest:future"
          /\ StatusCode(last'.res) = 400
          /\ UNCHANGED <<posts, nextId, queue, req>>
  /\ \A p \in (DOMAIN posts') \ (DOMAIN posts) :
       Present(posts'[p].scheduledAt) => posts'[p].scheduledAt[1] > now
  /\ \A r \in Requests :
       (~InFlight(r) /\ req'[r].pc = "create_add")
         => req'[r].doc.scheduledAt[1] > now
C6_PastTimeRejected == [][C6_RejectStep]_vars

\* a createPost for the current instant or a past one has been rejected
C6_Witness ==
  /\ last.op = "create" /\ last.res = "BadRequest:future"
  /\ Present(last.s) /\ last.s[1] <= now
  /\ last.p = 0

\* C7 as stated: whenever createPost with a scheduledAt returns an error after
\* Post.create, the post is gone and no job of that post is in the queue
C7_FailedCreateLeavesNothing ==
  (last.op = "create" /\ last.res = "BadRequest:schedule")
    => ~Exists(last.p) /\ ~HasJob(queue, JobKey(last.p))

\* C8: updatePost on a published post returns 409 Conflict and changes no
\* post and no job; no updatePost gets past the check on a published post
C8_ConflictStep ==
  /\ (last' # last /\ last'.op = "update" /\ last'.res = "Conflict")
       => /\ StatusCode(last'.res) = 409
          /\ posts[last'.p].status = "published"
          /\ UNCHANGED <<posts, nextId, queue, req, worker>>
  /\ \A r \in Requests :
       (~InFlight(r) /\ InFlight(r)' /\ req'[r].op = "update")
         => posts[req'[r].p].status # "published"
C8_PublishedIsImmutable == [][C8_ConflictStep]_vars

\* an updatePost of a published post has been answered with Conflict
C8_Witness ==
  /\ last.op = "update" /\ last.res = "Conflict"
  /\ posts[last.p].status = "published"

\* C9 as stated, at the return of deletePost: when deletePost has succeeded on
\* a scheduled post, no live job of that post is in the queue and no processor
\* is running publishPost for it
C9_DeleteStep ==
  \A r \in Requests :
    (req[r].pc = "delete_doc" /\ req'[r].pc = "idle"
       /\ Exists(req[r].p) /\ posts[req[r].p].status = "scheduled"
       /\ posts[req[r].p].jobId = Some(JobKey(req[r].p)))
      => /\ LiveJobsOf(queue', req[r].p) = {}
         /\ \A w \in Workers :
              worker'[w].pc # "idle" => worker'[w].postId # req[r].p
C9_DeletedPostHasNoJob == [][C9_DeleteStep]_vars

\* C10: createPost without scheduledAt stores a draft and adds no job; with
\* request handlers running one at a time, an updatePost of such a draft that
\* gives a scheduledAt and succeeds leaves the post scheduled, with exactly one
\* job of that post in the queue and the post's jobId naming it
JobsOfPost(q, p) == {j \in q : j.postId = p}
C10_DraftStep ==
  /\ (last' # last /\ last'.op = "create" /\ last'.res = "OK"
        /\ ~Present(last'.s))
       => /\ posts'[last'.p].status = "draft"
          /\ ~Present(posts'[last'.p].jobId)
          /\ queue' = queue
          /\ JobsOfPost(queue', last'.p) = {}
  /\ \A r \in Requests :
       (/\ Cardinality(Requests) = 1
        /\ req[r].pc = "update_save" /\ req'[r].pc = "idle"
        /\ last'.res = "OK"
        /\ Present(req[r].data.scheduledAt)
        /\ req[r].doc.status = "draft" /\ ~Present(req[r].doc.jobId))
         => LET p == req[r].p
            IN /\ posts'[p].status = "scheduled"
               /\ posts'[p].jobId = Some(JobKey(p))
               /\ Cardinality(JobsOfPost(queue', p)) = 1
               /\ \A j \in JobsOfPost(queue', p) : Some(j.id) = posts'[p].jobId
C10_DraftThenSchedule == [][C10_DraftStep]_vars

\* a draft has been scheduled by updatePost and its job waits in the queue
C10_Witness ==
  /\ last.op = "update" /\ last.res = "OK" /\ Present(last.s)
  /\ posts[last.p].status = "scheduled"
  /\ posts[last.p].jobId = Some(JobKey(last.p))
  /\ \E j \in queue : j.postId = last.p /\ j.state = "pending" /\ Some(j.due) = last.s

\* C11 as stated: whenever the job of a stored post has failed for good, the
\* post's status eventually becomes 'failed'; no post stays 'scheduled'
\* forever beside its failed job
DeadJob(p) == \E j \in queue : j.postId = p /\ j.state = "failed"
C11_FailedJobMarksPost ==
  \A p \in PostIds :
    (Exists(p) /\ posts[p].status = "scheduled" /\ DeadJob(p))
      ~> (Exists(p) /\ posts[p].status = "failed")

\* C12 as stated, in its particular: once overlapping updatePost calls on a
\* post have all returned, the post is as some serial order of the calls
\* leaves it: the live job of a scheduled post is the one its jobId names and
\* is due at the stored scheduledAt, and a draft has no live job
SeriallyConsistent(p) ==
  LET d == posts[p]
  IN /\ d.status = "scheduled" =>
          \A j \in LiveJobsOf(queue, p) :
            d.jobId = Some(j.id) /\ Some(j.due) = d.scheduledAt
     /\ d.status = "draft" => LiveJobsOf(queue, p) = {}
C12_UpdatesSerialize ==
  Quiet => \A p \in DOMAIN posts : SeriallyConsistent(p)

\* C13: with two or more worker processes on the queue no job is being
\* processed by two workers at once: a worker that runs a job holds its lock,
\* and a job that a worker runs is not handed to another worker
Busy(w) == worker[w].pc # "idle"
JobIds == {JobKey(p) : p \in PostIds}
OrphanedJob(k) == \E j \in JobsOf(queue, k) : Orphaned(j)
BackInQueue(k) ==
  \E j \in JobsOf(queue, k) :
    \/ j.state \in {"pending", "completed"}
    \/ j.state = "active" /\ ~Orphaned(j)
C14_CrashedJobReturns ==
  \A k \in JobIds : OrphanedJob(k) ~> BackInQueue(k)

\* C14 as amended: a job left active by a worker that died does not stay
\* active; the first time the stalled-job check returns it to the wait list
\* and a running worker runs it again, the second time (more than
\* MaxStalledCount stalls) the check moves it to failed without another run
Recoverable(k) ==
  \E j \in JobsOf(queue, k) : Orphaned(j) /\ j.stalls < MaxStalledCount
Exhausted(k) ==
  \E j \in JobsOf(queue, k) : Orphaned(j) /\ j.stalls >= MaxStalledCount
RunAgain(k) ==
  \E j \in JobsOf(queue, k) :
    /\ j.stalls >= 1 /\ j.stalls <= MaxStalledCount /\ j.tries >= 2
    /\ \/ j.state = "completed"
       \/ j.state = "active" /\ ~Orphaned(j)
StalledOut(k) ==
  \E j \in JobsOf(queue, k) :
    j.state = "failed" /\ j.stalls > MaxStalledCount
Replaced(k) == \A j \in JobsOf(queue, k) : j.stalls = 0 /\ j.tries = 0
C14_CrashedJobRecovered ==
  /\ \A k \in JobIds : Recoverable(k) ~> (RunAgain(k) \/ Replaced(k))
  /\ \A k \in JobIds : Exhausted(k) ~> (StalledOut(k) \/ Replaced(k))
  /\ [](\A j \in queue : j.stalls > MaxStalledCount => j.state = "failed")

\* after one crash the job has been run again and completed
C14_Witness ==
  \E j \in queue : j.stalls = 1 /\ j.tries = 2 /\ j.state = "completed"

\* C15 as stated: under overlapping publishPost invocations for a post its
\* publishedAt, once set, never changes, and a post that is published is
\* not written as published a second time
C15_PublishStep ==
  \A p \in DOMAIN posts :
    (posts[p].status = "published" /\ p \in DOMAIN posts')
      => posts'[p].publishedAt = posts[p].publishedAt
C15_PublishedAtIsFinal == [][C15_PublishStep]_vars

\* C16: calculateDelay(t) either throws BadRequestError, when t is not strictly
\* after the clock, or returns a whole number of milliseconds that is not
\* negative, however far the clock advances between the futurity check and
\* the subtraction.
C16_DelayStep ==
  (last' # last /\ last'.op = "calculateDelay") =>
     \/ /\ last'.res = "BadRequest:future"
        /\ GetTime(NormalizeToUtc(last'.s[1])) <= now
     \/ /\ last'.res = "OK"
        /\ last'.value \in Nat
C16_DelayIsNeverNegative == [][C16_DelayStep]_vars

\* C17: for every valid instant t, isFutureTime(normalizeToUtc(t)) is true at
\* every clock value strictly before t and false at every clock value equal
\* to or after t.
Instant(input) == IF IsDate(input) THEN input.time ELSE input.wall - input.offset
C17_FutureStep ==
  (last' # last /\ last'.op = "isFutureTime") =>
     last'.value = (Instant(last'.s[1]) > now)
C17_FutureIffStrictlyLater == [][C17_FutureStep]_vars
C17_Witness ==
  /\ last.op = "isFutureTime"
  /\ last.s[1] \in IsoStrings
  /\ last.s[1].offset # 0
  /\ Instant(last.s[1]) = now
  /\ last.value = FALSE


\* C18: the worker never publishes a post at a clock value earlier than the
\* scheduledAt the post holds at that moment, after any sequence of create and
\* update operations.
C18_PublishStep ==
  \A p \in DOMAIN posts :
    (/\ p \in DOMAIN posts'
     /\ posts[p].status # "published"
     /\ posts'[p].status = "published"
     /\ Present(posts[p].scheduledAt)) => posts[p].scheduledAt[1] <= now
C18_NeverPublishedEarly == [][C18_PublishStep]_vars

\* C19: getPost, updatePost and deletePost called by a user who does not own
\* the post, or with the id of no existing post, fail with NotFound and leave
\* every post record and the queue unchanged.
Stranger(u, p) == ~Exists(p) \/ posts[p].userId # u
C19_StrangerStep ==
  \A r \in Requests, u \in Users, p \in PostIds :
    (/\ Stranger(u, p)
     /\ \/ GetPost(r, u, p)
        \/ DeleteStart(r, u, p)
        \/ \E c \in OptContents, s \in OptTimes : UpdateStart(r, u, p, c, s))
    => /\ last'.res = "NotFound"
       /\ last'.p = p
       /\ req' = req
       /\ posts' = posts
       /\ queue' = queue
C19_StrangersGetNotFound == [][C19_StrangerStep]_vars
C19_Witness ==
  /\ last.op \in {"update", "delete"}
  /\ last.res = "NotFound"
  /\ Exists(last.p)
  /\ HasJob(queue, JobKey(last.p))

\* C20: whenever updatePost fails with a BadRequest error about the scheduled
\* time, no state has been mutated: the stored post is unchanged and the job
\* that existed for it before the call is still in the queue.  A call that has
\* run removeJob answers for the job its post named when it was read.
C20_RejectStep ==
  (last' # last /\ last'.op = "update" /\ last'.res = "BadRequest:future") =>
     /\ posts' = posts
     /\ \A r \in Requests :
          (req[r].pc # "idle" /\ req'[r].pc = "idle" /\ req[r].removed) =>
             HasJob(queue', req[r].doc.jobId[1])
C20_RejectedUpdateMutatesNothing == [][C20_RejectStep]_vars

\* C21: when removing the old job fails during updatePost or deletePost, the
\* failure does not block the requested mutation: the call goes on to delete
\* the post record, or to apply and save the changes.
C21_RemoveFailureStep ==
  \A r \in Requests :
    (/\ req[r].pc \in {"update_remove", "delete_remove"}
     /\ RemoveRejects(queue, req[r].doc.jobId[1])
     /\ req'[r] # req[r]) =>
       /\ req'[r].pc \in {"update_add", "update_save", "delete_doc"}
       /\ last'.res # "Error"
C21_RemoveFailureIsNotFatal == [][C21_RemoveFailureStep]_vars

\* C22: removeJob is idempotent: for a job id that is absent from the queue,
\* already removed or already completed it returns without error, and calling
\* it twice in a row leaves the same queue as calling it once.
Settled(q, id) == \A j \in JobsOf(q, id) : j.state = "completed"
C22_RemoveStep ==
  \A r \in Requests, p \in PostIds :
    RemoveJobCall(r, p) =>
      /\ Settled(queue, JobKey(p)) =>
            last'.res = "OK" /\ ~HasJob(queue', JobKey(p))
      /\ (last = Returned("removeJob", p, None, "OK")) =>
            last'.res = "OK" /\ queue' = queue
      /\ last'.res = "OK" =>
            /\ ~RemoveRejects(queue', JobKey(p))
            /\ RemoveJob(queue', JobKey(p)) = queue'
C22_RemoveIsIdempotent == [][C22_RemoveStep]_vars
C22_Witness ==
  /\ last = Returned("removeJob", 1, None, "OK")
  /\ Exists(1)
  /\ posts[1].status = "published"
  /\ ~HasJob(queue, JobKey(1))

\* C23: the job key is a function of the post id alone, and addJob for a post
\* whose key is already in the queue (pending, or retained after completion or
\* failure) supersedes the prior job: afterwards exactly one job exists under
\* that key and its due instant is the one of the latest addJob.
C23_AddStep ==
  \A r \in Requests, p \in PostIds, t \in Times :
    AddJobCall(r, p, t) =>
      /\ Cardinality(JobsOf(queue', JobKey(p))) = 1
      /\ \A j \in JobsOf(queue', JobKey(p)) :
            j.postId = p /\ j.state = "pending" /\ j.due = t
C23_AddSupersedes == [][C23_AddStep]_vars

\* C24: a job that fails, waits for its retry backoff or has failed for good
\* never prevents another post's due job from being processed: under worker
\* fairness every other due job is eventually processed, and the worker keeps
\* consuming jobs after any single job's failure.
Troubled(j) == j.state = "failed" \/ (j.state = "pending" /\ j.attemptsMade > 0)
DueBeside(p, k) ==
  /\ \E j \in queue :
       j.postId = p /\ j.state = "pending" /\ j.due <= now /\ j.tries = k
  /\ \E j \in queue : j.postId # p /\ Troubled(j)
Processed(p, k) ==
  \A j \in queue : j.postId = p => ~(j.state = "pending" /\ j.tries = k)
C24_FailureDoesNotBlock ==
  \A p \in PostIds, k \in 0..Attempts : DueBeside(p, k) ~> Processed(p, k)
C24_Witness ==
  /\ \E j \in queue : j.postId = GhostPost /\ j.state = "failed"
  /\ \E j \in queue : j.postId = 1 /\ j.state = "completed"
  /\ Exists(1)
  /\ posts[1].status = "published"
  /\ Present(posts[1].publishedAt)

\* C25: a successful updatePost without scheduledAt on a post whose status is
\* 'scheduled' (an update of content only included) ends with status 'draft',
\* scheduledAt cleared, jobId cleared and no live job for the post in the
\* queue.  Calls are made one at a time.
C25_UnscheduleStep ==
  \A r \in Requests :
    (/\ Cardinality(Requests) = 1
     /\ req[r].pc = "update_save"
     /\ req[r].doc.status = "scheduled"
     /\ ~Present(req[r].data.scheduledAt)
     /\ last' = Returned("update", req[r].p, None, "OK")) =>
       /\ req[r].p \in DOMAIN posts'
       /\ posts'[req[r].p].status = "draft"
       /\ posts'[req[r].p].scheduledAt = None
       /\ posts'[req[r].p].jobId = None
       /\ LiveJobsOf(queue', req[r].p) = {}
C26_SameInstantStep ==
  (last' # last /\ last'.op = "isSameInstant") =>
     /\ last'.value = TRUE
     /\ NormalizeToUtc(last'.s[1]).offset = 0
     /\ last'.s[1].offset = 0 => NormalizeToUtc(last'.s[1]) = last'.s[1]
RateOps == {"increment", "decrement", "resetKey"}
C27_StoreStep ==
  /\ (last' # last /\ last'.op \in RateOps) => last'.res = "OK"
  /\ \A r \in Requests, key \in RateKeys, reply \in RedisReplies \ {"ok"} :
       IncrementExec(r, key, reply) =>
         last'.op = "increment" /\ last'.res = "OK" /\ last'.value = 0
  /\ \A r \in Requests :
       IncrementExpire(r, FALSE) =>
         last'.op = "increment" /\ last'.res = "OK" /\ last'.value = 0
C27_StoreFailsOpen == [][C27_StoreStep]_vars
C27_Witness ==
  /\ last.op = "increment"
  /\ last.res = "OK"
  /\ last.value = 0
  /\ HitsOf(last.key) > 1

\* C28: once a post's status is 'published' it never changes again, under any
\* interleaving of updatePost calls with the worker's publishPost: an
\* updatePost that read the post before it was published never writes
\* 'scheduled' or 'draft' over 'published' and never enqueues a new job for an
\* already published post.
C28_PublishedStep ==
  \A p \in DOMAIN posts :
    (posts[p].status = "published" /\ p \in DOMAIN posts') =>
       /\ posts'[p].status = "published"
       /\ \A j \in queue' : (j.postId = p /\ Live(j)) => j \in queue
C28_PublishedStaysPublished == [][C28_PublishedStep]_vars

\* C29: publishPost only ever moves a post from 'scheduled' to 'published':
\* after any sequence and interleaving of create, update, delete and worker
\* steps, no post whose status is 'draft' (or 'failed') at the moment the job
\* runs becomes 'published'.
C29_PublishStep ==
  \A p \in DOMAIN posts :
    (/\ p \in DOMAIN posts'
     /\ posts[p].status # "published"
     /\ posts'[p].status = "published") => posts[p].status = "scheduled"
C29_OnlyScheduledIsPublished == [][C29_PublishStep]_vars

\* C30: whenever no createPost or updatePost call is in progress for a post
\* (also after such a call has returned an error), a stored post with status
\* 'scheduled' has a jobId that refers to a job that exists in the queue and
\* is pending or active.  A deletePost in progress, which removes the job
\* before the record, is left out as well.
Settling(p) ==
  \E r \in Requests :
    IF req[r].pc = "idle" THEN FALSE
    ELSE req[r].op \in {"create", "update", "delete"} /\ req[r].p = p
C30_ScheduledHasLiveJob ==
  \A p \in DOMAIN posts :
    (posts[p].status = "scheduled" /\ ~Settling(p)) =>
       /\ Present(posts[p].jobId)
       /\ \E j \in queue : j.id = posts[p].jobId[1] /\ Live(j)

====
